---- MODULE Spec2Model ----
(***************************************************************************)
(* GBCE trading ledger (gbce_trading.py): the process-wide registry        *)
(* EXCHANGE_STOCKS, the Stock objects that feed it, Trade construction,    *)
(* and the GBCETrading metrics (dividend yield, P/E ratio, volume weighted *)
(* stock price, all share index).                                          *)
(*                                                                         *)
(* Numbers are exact rationals num/den in lowest terms; floating point     *)
(* rounding is not modelled.  product ** (1/n) is kept symbolically as the *)
(* n-th root of a rational (field root).  Time is counted in minutes.      *)
(***************************************************************************)
EXTENDS Integers, Sequences, FiniteSets, TLC

VARIABLES
    now,              \* the wall clock, datetime.datetime.now()
    stockObjs,        \* the Stock objects created so far, in creation order
    EXCHANGE_STOCKS,  \* the module-level dict: symbol value -> stock record
    engine,           \* the GBCETrading object (one at a time)
    ret               \* the last step: what was called, with what, and its outcome

vars == <<now, stockObjs, EXCHANGE_STOCKS, engine, ret>>

(***************************************************************************)
(* Bounds of the model.                                                    *)
(***************************************************************************)
NumStocks == 2        \* Stock objects that may be created
MaxTrades == 2        \* trades held by the Stock objects, all together
MaxTime == 6          \* the clock stops here

(***************************************************************************)
(* Program constants.                                                      *)
(***************************************************************************)
THRESHOLD_MINUTES == 5
TIME_INTERVAL == THRESHOLD_MINUTES
LoadTime == 0         \* the clock when gbce_trading is imported
COMMON == "Common"
PREFERRED == "Preferred"
BUY == "Buy"
SELL == "Sell"

(***************************************************************************)
(* Python values.  kind is "num", "None", "str" (a non-number) or the name *)
(* of the exception the evaluation raised.                                 *)
(***************************************************************************)
Exceptions == {"ValueError", "TypeError", "ZeroDivisionError", "KeyError"}

Value(k, n, d, r) == [kind |-> k, num |-> n, den |-> d, root |-> r]
None == Value("None", 0, 1, 1)
NotANumber == Value("str", 0, 1, 1)
Raise(e) == Value(e, 0, 1, 1)
IsRaise(v) == v.kind \in Exceptions
IsNum(v) == v.kind = "num"

Abs(x) == IF x < 0 THEN -x ELSE x

RECURSIVE GCD(_, _)
GCD(a, b) == IF b = 0 THEN a ELSE GCD(b, a % b)

\* the rational n/d (d # 0) in lowest terms with a positive denominator
Number(n, d) ==
    LET g == GCD(Abs(n), Abs(d))
        s == IF d < 0 THEN -1 ELSE 1
    IN Value("num", s * (n \div g), Abs(d) \div g, 1)

Whole(n) == Number(n, 1)

\* Python truthiness of None and of a number
Truthy(v) == IsNum(v) /\ v.num # 0

\* a * b
Mul(a, b) ==
    IF IsRaise(a) THEN a
    ELSE IF IsRaise(b) THEN b
    ELSE IF ~IsNum(a) \/ ~IsNum(b) THEN Raise("TypeError")
    ELSE Number(a.num * b.num, a.den * b.den)

\* a / b (true division)
TrueDiv(a, b) ==
    IF IsRaise(a) THEN a
    ELSE IF IsRaise(b) THEN b
    ELSE IF ~IsNum(a) \/ ~IsNum(b) THEN Raise("TypeError")
    ELSE IF b.num = 0 THEN Raise("ZeroDivisionError")
    ELSE Number(a.num * b.den, a.den * b.num)

\* x ** e for e = 1/n: the n-th root of x, kept symbolically
Pow(x, e) ==
    IF IsRaise(x) THEN x
    ELSE IF IsRaise(e) THEN e
    ELSE [x EXCEPT !.root = e.den]

\* a < 0
Negative(v) == IsNum(v) /\ v.num < 0

\* try: v  except exc: handler
Except(v, exc, handler) == IF v.kind = exc THEN handler ELSE v

(***************************************************************************)
(* Strings are objects: two strings of the same value may be distinct      *)
(* objects.  `is` compares objects; dict keys compare values.               *)
(***************************************************************************)
Str(v, i) == [val |-> v, id |-> i]
Is(a, b) == a = b

EmptyDict == [k \in {} |-> None]
In(key, dict) == key \in DOMAIN dict
SetItem(dict, key, v) == (key :> v) @@ dict

(***************************************************************************)
(* A list is either the trades list of a Stock object (an alias: the       *)
(* registry entry and the Stock share one list object) or a list of the    *)
(* caller's own, as in a mapping handed to GBCETrading.                    *)
(***************************************************************************)
ListOf(h) == [alias |-> TRUE, of |-> h, items |-> <<>>]
OwnList(items) == [alias |-> FALSE, of |-> 0, items |-> items]
Items(list) == IF list.alias THEN stockObjs[list.of].trades ELSE list.items

StockRecord(type, lastDividend, fixedDividend, parValue, trades) ==
    [Type |-> type, LastDividend |-> lastDividend, FixedDividend |-> fixedDividend,
     ParValue |-> parValue, Trades |-> trades]

\* Trade.__init__: the object, or the exception raised
Trade(symbol, quantity, tradeType, price, timestamp) ==
    IF quantity > 0
    THEN IF price > 0
         THEN [class |-> "Trade", symbol |-> symbol, quantity |-> quantity,
               tradeType |-> tradeType, price |-> price, timestamp |-> timestamp]
         ELSE [class |-> "ValueError"]
    ELSE [class |-> "ValueError"]

\* the default of Trade.__init__'s timestamp parameter: datetime.datetime.now()
\* evaluated once, when the def statement runs at import
TimestampDefault == LoadTime

\* Trade.totalPrice
totalPrice(trade) == trade.quantity * trade.price

\* Stock.getAllStocks
getAllStocks == EXCHANGE_STOCKS

\* GBCETrading.__init__: self.stocks = stocks or Stock.getAllStocks().
\* given is None or a mapping; an empty mapping is falsy.
GBCETradingInit(given) ==
    [made |-> TRUE, given |-> given,
     global |-> (given.isNone \/ DOMAIN given.map = {})]

NoneArg == [isNone |-> TRUE, map |-> EmptyDict]
MapArg(m) == [isNone |-> FALSE, map |-> m]

\* self.stocks of the engine
Stocks == IF engine.global THEN getAllStocks ELSE engine.given.map

(***************************************************************************)
(* GBCETrading.getDividendYield                                            *)
(***************************************************************************)
getDividendYield(stocks, symbol, price) ==
    IF ~In(symbol, stocks) THEN Raise("ValueError")
    ELSE IF ~IsNum(price) \/ Negative(price) THEN Raise("ValueError")
    ELSE LET stockRecord == stocks[symbol] IN
         IF stockRecord.Type = COMMON
         THEN Except(TrueDiv(stockRecord.LastDividend, price), "ZeroDivisionError", None)
         ELSE Except(TrueDiv(Mul(stockRecord.FixedDividend, stockRecord.ParValue), price),
                     "ZeroDivisionError", None)

(***************************************************************************)
(* GBCETrading.getPERatio                                                  *)
(***************************************************************************)
getPERatio(stocks, symbol, price) ==
    IF ~In(symbol, stocks) THEN Raise("ValueError")
    ELSE IF ~IsNum(price) \/ Negative(price) THEN Raise("ValueError")
    ELSE Except(Except(TrueDiv(price, getDividendYield(stocks, symbol, price)),
                       "ZeroDivisionError", None),
                "TypeError", None)

(***************************************************************************)
(* GBCETrading.getVolumeWeightedStockPrice; currentTime is the clock read  *)
(* by the call.                                                            *)
(***************************************************************************)
RECURSIVE SumTotalPrice(_)
SumTotalPrice(trades) ==
    IF trades = <<>> THEN 0 ELSE totalPrice(Head(trades)) + SumTotalPrice(Tail(trades))

RECURSIVE SumQuantity(_)
SumQuantity(trades) ==
    IF trades = <<>> THEN 0 ELSE Head(trades).quantity + SumQuantity(Tail(trades))

getVolumeWeightedStockPrice(stocks, symbol, currentTime) ==
    IF ~In(symbol, stocks) THEN Raise("ValueError")
    ELSE LET allTrades == Items(stocks[symbol].Trades)
             requiredTrades ==
                 SelectSeq(allTrades,
                           LAMBDA trade: trade.timestamp >= currentTime - TIME_INTERVAL)
         IN IF Len(requiredTrades) > 0
            THEN TrueDiv(Whole(SumTotalPrice(requiredTrades)),
                         Whole(SumQuantity(requiredTrades)))
            ELSE None

(***************************************************************************)
(* GBCETrading.getGBCEAllShareIndex                                        *)
(***************************************************************************)
\* reduce(operator.mul, [f[k] for k in keys], 1)
RECURSIVE Product(_, _)
Product(f, keys) ==
    IF keys = {} THEN Whole(1)
    ELSE LET k == CHOOSE x \in keys : TRUE
         IN Mul(Product(f, keys \ {k}), f[k])

\* getGBCEAllShareIndex with the undefined prices left out of the product
\* instead of voiding the index
getGBCEAllShareIndexSkippingUndefined(stocks, currentTime) ==
    LET volumeWeightedStockPrices ==
            [symbol \in DOMAIN stocks |->
                getVolumeWeightedStockPrice(stocks, symbol, currentTime)]
        defined == {symbol \in DOMAIN stocks : volumeWeightedStockPrices[symbol] # None}
    IN IF defined # {}
       THEN Pow(Product(volumeWeightedStockPrices, defined),
                TrueDiv(Whole(1), Whole(Cardinality(DOMAIN stocks))))
       ELSE None

getGBCEAllShareIndex(stocks, currentTime) ==
    LET volumeWeightedStockPrices ==
            [symbol \in DOMAIN stocks |->
                getVolumeWeightedStockPrice(stocks, symbol, currentTime)]
    IN IF ~(\E symbol \in DOMAIN stocks : volumeWeightedStockPrices[symbol] = None)
       THEN Pow(Product(volumeWeightedStockPrices, DOMAIN stocks),
                TrueDiv(Whole(1), Whole(Cardinality(DOMAIN stocks))))
       ELSE None

(***************************************************************************)
(* Stock.addStockDetails: the registry after the call.                     *)
(***************************************************************************)
addStockDetails(h, type, lastDividend, parValue, fixedDividend) ==
    SetItem(EXCHANGE_STOCKS, stockObjs[h].symbol.val,
            StockRecord(type, lastDividend,
                        IF Truthy(fixedDividend)
                        THEN TrueDiv(fixedDividend, Whole(100))
                        ELSE fixedDividend,
                        parValue, ListOf(h)))

(***************************************************************************)
(* Stock.recordTrade: the outcome, the Stock's list and the registry after *)
(* the call.                                                               *)
(***************************************************************************)
recordTrade(h, trade) ==
    LET self == stockObjs[h] IN
    IF trade.class # "Trade"
    THEN [out |-> Raise("TypeError"), trades |-> self.trades, stocks |-> EXCHANGE_STOCKS]
    ELSE IF ~Is(self.symbol, trade.symbol)
    THEN [out |-> Raise("ValueError"), trades |-> self.trades, stocks |-> EXCHANGE_STOCKS]
    ELSE LET appended == Append(self.trades, trade) IN
         IF ~In(self.symbol.val, EXCHANGE_STOCKS)
         THEN [out |-> Raise("KeyError"), trades |-> appended, stocks |-> EXCHANGE_STOCKS]
         ELSE [out |-> None, trades |-> appended,
               stocks |-> [EXCHANGE_STOCKS EXCEPT ![self.symbol.val].Trades = ListOf(h)]]

\* Stock.getStock
getStock(symbol) ==
    IF In(symbol, EXCHANGE_STOCKS) THEN EXCHANGE_STOCKS[symbol] ELSE Raise("KeyError")

(***************************************************************************)
(* The state after import.                                                 *)
(***************************************************************************)
Init ==
    /\ now = LoadTime
    /\ stockObjs = <<>>
    /\ EXCHANGE_STOCKS = EmptyDict
    /\ engine = [made |-> FALSE, given |-> NoneArg, global |-> TRUE]
    /\ ret = [op |-> "import", args |-> <<>>, out |-> None]

RECURSIVE TradeCount(_)
TradeCount(objs) ==
    IF objs = <<>> THEN 0 ELSE Len(Head(objs).trades) + TradeCount(Tail(objs))

(***************************************************************************)
(* The calls.                                                              *)
(***************************************************************************)
\* Stock(symbol)
NewStock(symbol) ==
    /\ Len(stockObjs) < NumStocks
    /\ stockObjs' = Append(stockObjs, [symbol |-> symbol, trades |-> <<>>])
    /\ ret' = [op |-> "Stock", args |-> [symbol |-> symbol], out |-> None]
    /\ UNCHANGED <<now, EXCHANGE_STOCKS, engine>>

\* stockObjs[h].addStockDetails(type, lastDividend, parValue, fixedDividend)
AddStockDetails(h, type, lastDividend, parValue, fixedDividend) ==
    /\ h \in 1..Len(stockObjs)
    /\ EXCHANGE_STOCKS' = addStockDetails(h, type, lastDividend, parValue, fixedDividend)
    /\ ret' = [op |-> "addStockDetails", args |-> [stock |-> h], out |-> None]
    /\ UNCHANGED <<now, stockObjs, engine>>

\* stockObjs[h].recordTrade(trade); defaulted tells whether the Trade was built
\* without a timestamp argument
RecordTrade(h, trade, defaulted) ==
    /\ h \in 1..Len(stockObjs)
    /\ TradeCount(stockObjs) < MaxTrades
    /\ LET r == recordTrade(h, trade) IN
        /\ stockObjs' = [stockObjs EXCEPT ![h].trades = r.trades]
        /\ EXCHANGE_STOCKS' = r.stocks
        /\ ret' = [op |-> "recordTrade",
                   args |-> [stock |-> h, trade |-> trade, defaulted |-> defaulted],
                   out |-> r.out]
    /\ UNCHANGED <<now, engine>>

\* Trade(...) raised: the statement ends there
TradeRaises(h, trade) ==
    /\ h \in 1..Len(stockObjs)
    /\ ret' = [op |-> "Trade", args |-> [stock |-> h], out |-> Raise(trade.class)]
    /\ UNCHANGED <<now, stockObjs, EXCHANGE_STOCKS, engine>>

\* stockObjs[h].recordTrade(Trade(symbol, quantity, tradeType, price[, timestamp])):
\* the argument is built first, at the same clock reading
RecordNewTrade(h, symbol, quantity, tradeType, price, timestamp) ==
    LET trade == Trade(symbol, quantity, tradeType, price,
                       IF timestamp.given THEN timestamp.at ELSE TimestampDefault)
    IN IF trade.class = "Trade"
       THEN RecordTrade(h, trade, ~timestamp.given)
       ELSE TradeRaises(h, trade)

\* time passes
Tick ==
    /\ now < MaxTime
    /\ now' = now + 1
    /\ ret' = [op |-> "tick", args |-> <<>>, out |-> None]
    /\ UNCHANGED <<stockObjs, EXCHANGE_STOCKS, engine>>

\* GBCETrading(given)
NewEngine(given) ==
    /\ engine' = GBCETradingInit(given)
    /\ ret' = [op |-> "GBCETrading", args |-> <<>>, out |-> None]
    /\ UNCHANGED <<now, stockObjs, EXCHANGE_STOCKS>>

\* engine.getDividendYield(symbol, price)
GetDividendYield(symbol, price) ==
    /\ engine.made
    /\ ret' = [op |-> "getDividendYield", args |-> [symbol |-> symbol, price |-> price],
               out |-> getDividendYield(Stocks, symbol, price)]
    /\ UNCHANGED <<now, stockObjs, EXCHANGE_STOCKS, engine>>

\* engine.getPERatio(symbol, price)
GetPERatio(symbol, price) ==
    /\ engine.made
    /\ ret' = [op |-> "getPERatio", args |-> [symbol |-> symbol, price |-> price],
               out |-> getPERatio(Stocks, symbol, price)]
    /\ UNCHANGED <<now, stockObjs, EXCHANGE_STOCKS, engine>>

\* engine.getVolumeWeightedStockPrice(symbol)
GetVolumeWeightedStockPrice(symbol) ==
    /\ engine.made
    /\ ret' = [op |-> "getVolumeWeightedStockPrice", args |-> [symbol |-> symbol],
               out |-> getVolumeWeightedStockPrice(Stocks, symbol, now)]
    /\ UNCHANGED <<now, stockObjs, EXCHANGE_STOCKS, engine>>

\* engine.getGBCEAllShareIndex()
GetGBCEAllShareIndex ==
    /\ engine.made
    /\ ret' = [op |-> "getGBCEAllShareIndex", args |-> <<>>,
               out |-> getGBCEAllShareIndex(Stocks, now)]
    /\ UNCHANGED <<now, stockObjs, EXCHANGE_STOCKS, engine>>

(***************************************************************************)
(* Inputs.                                                                 *)
(***************************************************************************)
TEA1 == Str("TEA", 1)
TEA2 == Str("TEA", 2)   \* equal to TEA1, another object
GIN1 == Str("GIN", 1)

NoStamp == [given |-> FALSE, at |-> LoadTime]
Stamp(t) == [given |-> TRUE, at |-> t]
NotATrade == [class |-> "str"]

\* the mappings the unit tests hand to GBCETrading, and the empty one
PopCommon == "POP" :> StockRecord(COMMON, Whole(8), None, Whole(100), OwnList(<<>>))
GivenMappings == {EmptyDict, PopCommon}

QueryPrices == {Whole(0), Whole(4), Whole(160), Number(-107, 10), NotANumber}

(***************************************************************************)
(* The ledger: Stock objects, registration, recording.                     *)
(***************************************************************************)
LedgerNext ==
    \/ \E symbol \in {TEA1, TEA2, GIN1} : NewStock(symbol)
    \/ \E h \in 1..NumStocks : AddStockDetails(h, COMMON, Whole(8), Whole(100), None)
    \/ \E h \in 1..NumStocks, symbol \in {TEA1, TEA2, GIN1}, quantity \in {0, 1, 2},
          tradeType \in {BUY, SELL} :
            RecordNewTrade(h, symbol, quantity, tradeType, 120, NoStamp)
    \/ \E h \in 1..NumStocks : RecordTrade(h, NotATrade, FALSE)

SpecLedger == Init /\ [][LedgerNext]_vars

(***************************************************************************)
(* Dividend yield and P/E ratio over every kind of registered stock and    *)
(* over the engine's three constructions.                                  *)
(***************************************************************************)
YieldNext ==
    \/ \E symbol \in {TEA1, GIN1} : NewStock(symbol)
    \/ \E h \in 1..NumStocks, type \in {COMMON, PREFERRED},
          lastDividend \in {Whole(0), Whole(8)}, fixedDividend \in {None, Whole(0), Whole(2)} :
            AddStockDetails(h, type, lastDividend, Whole(100), fixedDividend)
    \/ \E given \in {NoneArg} \cup {MapArg(m) : m \in GivenMappings} : NewEngine(given)
    \/ \E symbol \in {"TEA", "GIN", "POP", "ABC"}, price \in QueryPrices :
            GetDividendYield(symbol, price)
    \/ \E symbol \in {"TEA", "GIN", "POP", "ABC"}, price \in QueryPrices :
            GetPERatio(symbol, price)

SpecYield == Init /\ [][YieldNext]_vars

(***************************************************************************)
(* Trades against the clock: the volume weighted price and the index.      *)
(***************************************************************************)
ClockNext ==
    \/ \E symbol \in {TEA1, GIN1} : NewStock(symbol)
    \/ \E h \in 1..NumStocks : AddStockDetails(h, COMMON, Whole(8), Whole(100), None)
    \/ \E h \in DOMAIN stockObjs, quantity \in {1, 2}, price \in {1, 2},
          timestamp \in {NoStamp, Stamp(MaxTime + 1)} :
            RecordNewTrade(h, stockObjs[h].symbol, quantity, BUY, price, timestamp)
    \/ Tick
    \/ NewEngine(NoneArg)
    \/ \E symbol \in {"TEA", "GIN", "PQR"} : GetVolumeWeightedStockPrice(symbol)
    \/ GetGBCEAllShareIndex

SpecClock == Init /\ [][ClockNext]_vars

(***************************************************************************)
(* The all share index over trades that age out of the window.             *)
(***************************************************************************)
Lots == {[quantity |-> 1, price |-> 1], [quantity |-> 2, price |-> 3]}

IndexNext ==
    \/ \E symbol \in {TEA1, GIN1} : NewStock(symbol)
    \/ \E h \in 1..NumStocks : AddStockDetails(h, COMMON, Whole(8), Whole(100), None)
    \/ \E h \in DOMAIN stockObjs, lot \in Lots :
            RecordNewTrade(h, stockObjs[h].symbol, lot.quantity, BUY, lot.price, NoStamp)
    \/ Tick
    \/ NewEngine(NoneArg)
    \/ GetGBCEAllShareIndex

SpecIndex == Init /\ [][IndexNext]_vars

(***************************************************************************)
(* Properties.                                                             *)
(***************************************************************************)
\* equality of two strings by value
Eq(a, b) == a.val = b.val

IsPrefix(a, b) == Len(a) <= Len(b) /\ SubSeq(b, 1, Len(a)) = a

\* the registry's trade sequence of a symbol
HistoryOf(symbol) == Items(EXCHANGE_STOCKS[symbol].Trades)

RECURSIVE SumOver(_, _)
SumOver(f, S) ==
    IF S = {} THEN 0
    ELSE LET x == CHOOSE y \in S : TRUE IN f[x] + SumOver(f, S \ {x})

\* the trades of a symbol stamped inside [t - 5min, t], by position
InWindow(stocks, symbol, t) ==
    LET trades == Items(stocks[symbol].Trades)
    IN {i \in 1..Len(trades) :
            /\ t - THRESHOLD_MINUTES <= trades[i].timestamp
            /\ trades[i].timestamp <= t}

\* C1: volumeWeightedStockPrice(symbol) at clock time now, for a symbol of the
\* view, counts exactly the trades stamped within now - 5min <= timestamp <= now:
\* it is undefined when there is none, and otherwise the sum of quantity * price
\* over the sum of quantity of those trades.
C1_VWSPCountsTrailingWindow ==
    (ret.op = "getVolumeWeightedStockPrice" /\ In(ret.args.symbol, Stocks)) =>
        LET trades == Items(Stocks[ret.args.symbol].Trades)
            window == InWindow(Stocks, ret.args.symbol, now)
            value == [i \in window |-> trades[i].quantity * trades[i].price]
            volume == [i \in window |-> trades[i].quantity]
        IN IF window = {}
           THEN ret.out = None
           ELSE ret.out = Number(SumOver(value, window), SumOver(volume, window))

RECURSIVE ProductOfVWSP(_, _)
ProductOfVWSP(S, t) ==
    IF S = {} THEN Whole(1)
    ELSE LET x == CHOOSE y \in S : TRUE
         IN Mul(getVolumeWeightedStockPrice(Stocks, x, t), ProductOfVWSP(S \ {x}, t))

\* C2: over a view of at least one symbol, allShareIndex() is undefined if and
\* only if some symbol of the view has an undefined volume weighted price;
\* otherwise it is the geometric mean of all of them: the n-th root, n the number
\* of symbols, of their product.
C2_IndexUndefinedIffSomeVWSPUndefined ==
    (ret.op = "getGBCEAllShareIndex" /\ DOMAIN Stocks # {}) =>
        LET undefined == {symbol \in DOMAIN Stocks :
                            getVolumeWeightedStockPrice(Stocks, symbol, now) = None}
            product == ProductOfVWSP(DOMAIN Stocks, now)
        IN /\ (ret.out = None) <=> (undefined # {})
           /\ undefined = {} =>
                /\ IsNum(ret.out)
                /\ ret.out.num = product.num
                /\ ret.out.den = product.den
                /\ ret.out.root = Cardinality(DOMAIN Stocks)

\* C2's case: two registered symbols, both with trades in the window, and a
\* numeric index over them
C2_NumericIndexOverTwoSymbols ==
    /\ ret.op = "getGBCEAllShareIndex"
    /\ Cardinality(DOMAIN Stocks) = 2
    /\ IsNum(ret.out)
    /\ ret.out.root = 2
    /\ ret.out.num > 1

\* C3: dividendYield fails if and only if the symbol is absent from the view or
\* the price is negative or not a number; at price 0, for a symbol of the view,
\* it returns the undefined value.
C3_YieldFailsOnlyOnBadSymbolOrPrice ==
    ret.op = "getDividendYield" =>
        LET bad == \/ ~In(ret.args.symbol, Stocks)
                   \/ ~IsNum(ret.args.price)
                   \/ Negative(ret.args.price)
        IN /\ IsRaise(ret.out) <=> bad
           /\ (~bad /\ ret.args.price = Whole(0)) => ret.out = None

\* C4: for a symbol of the view and a price >= 0, peRatio is undefined exactly
\* when dividendYield is undefined or 0, is price / dividendYield otherwise, and
\* fails when dividendYield fails.
C4_PERatioFollowsYield ==
    (/\ ret.op = "getPERatio"
     /\ In(ret.args.symbol, Stocks)
     /\ IsNum(ret.args.price)
     /\ ~Negative(ret.args.price)) =>
        LET yield == getDividendYield(Stocks, ret.args.symbol, ret.args.price)
        IN IF IsRaise(yield) THEN IsRaise(ret.out)
           ELSE IF yield = None \/ yield = Whole(0) THEN ret.out = None
           ELSE ret.out = Number(ret.args.price.num * yield.den,
                                 ret.args.price.den * yield.num)

\* C5: no step shortens or reorders the registry's trade sequence of a symbol:
\* the sequence before the step is a prefix of the sequence after it.
C5_HistoryOnlyGrows ==
    [][\A symbol \in DOMAIN EXCHANGE_STOCKS :
            IsPrefix(HistoryOf(symbol), HistoryOf(symbol)')]_vars

\* C6: a Trade built without a timestamp, once recorded, carries the clock time
\* of its construction.
C6_DefaultTimestampIsConstructionTime ==
    (/\ ret.op = "recordTrade"
     /\ ret.out = None
     /\ ret.args.trade.class = "Trade"
     /\ ret.args.defaulted) =>
        ret.args.trade.timestamp = now

\* C7: recordTrade on a registered stock appends the Trade whenever its symbol
\* equals the stock's symbol by value, and fails with the mismatch error,
\* appending nothing, exactly when the values differ.
C7_RecordTradeMatchesByValue ==
    (/\ ret.op = "recordTrade"
     /\ ret.args.trade.class = "Trade"
     /\ In(stockObjs[ret.args.stock].symbol.val, EXCHANGE_STOCKS)) =>
        IF Eq(stockObjs[ret.args.stock].symbol, ret.args.trade.symbol)
        THEN /\ ret.out = None
             /\ stockObjs[ret.args.stock].trades # <<>>
             /\ stockObjs[ret.args.stock].trades[Len(stockObjs[ret.args.stock].trades)]
                    = ret.args.trade
        ELSE ret.out = Raise("ValueError")

\* C8: an engine built with an explicit mapping answers every query from that
\* mapping only.
C8_GivenMappingIsTheOnlySource ==
    (engine.made /\ ~engine.given.isNone) =>
        /\ ret.op = "getDividendYield" =>
                ret.out = getDividendYield(engine.given.map, ret.args.symbol, ret.args.price)
        /\ ret.op = "getPERatio" =>
                ret.out = getPERatio(engine.given.map, ret.args.symbol, ret.args.price)

\* C9: allShareIndex() ends with a number or the undefined value, never with a
\* failure.
C9_IndexNeverFails ==
    ret.op = "getGBCEAllShareIndex" => ~IsRaise(ret.out)

\* C10: a recordTrade call that fails leaves every Stock object's trade list and
\* every registry entry as they were.
C10_FailedRecordTradeChangesNothing ==
    [][(ret'.op = "recordTrade" /\ IsRaise(ret'.out)) =>
            (stockObjs' = stockObjs /\ EXCHANGE_STOCKS' = EXCHANGE_STOCKS)]_vars

====
